---- MODULE Spec2Model ----
(***************************************************************************)
(* Model of the realtime connection manager of the CRM dashboard           *)
(* (src/src/lib/realtimeManager.ts, second revision, lines 255-593).       *)
(*                                                                         *)
(* The manager runs on one event loop.  An action of this model is one     *)
(* run-to-completion piece of a handler: from the event (or the resumption *)
(* of an await) up to the next await on the network.  The awaits that      *)
(* suspend a handler are removeChannel (one per handle in the teardown     *)
(* loop), auth.getSession (timer callback) and the keepalive query.        *)
(* Continuations that need no network round trip (the teardown of an       *)
(* empty array) run in the microtask queue and belong to the same action.  *)
(*                                                                         *)
(* Time is counted in steps of TickMs; Math.random() is drawn from         *)
(* RandomDraws (ten-thousandths).                                          *)
(***************************************************************************)
EXTENDS Integers, Sequences, FiniteSets, TLC

\* ---- program constants -------------------------------------------------
MAX_RECONNECT_ATTEMPTS == 10
BASE_DELAY == 1000
MAX_DELAY == 60000
VISIBILITY_DEBOUNCE == 1000

\* the four subscriptions opened by subscribeToChannels, in array order
TopicOrder == <<"leads", "services", "bookings", "assessments">>

\* statuses a subscription can report to its status callback
Statuses == {"SUBSCRIBED", "CLOSED", "CHANNEL_ERROR", "TIMED_OUT"}

\* events of supabase.auth.onAuthStateChange the handler reacts to
AuthEvents == {"SIGNED_IN", "TOKEN_REFRESHED", "SIGNED_OUT"}

\* ---- bounds of the model -----------------------------------------------
\* distinct handle generations that can be referenced at the same time
MaxGen == 3
\* handler activations that do not take the isReconnecting guard (online,
\* auth events) suspended in a teardown at once; the guard admits one more
MaxUnguarded == 1
\* setTimeout callbacks pending at once
MaxTimers == 1
\* keepalive queries in flight at once
MaxProbes == 1
\* pending backoff timers when failure statuses arrive in a burst
MaxBurst == 2
\* instances of useRealtimeSubscription
MaxHooks == 2
\* runs of the hook's effect that add a listener
MaxEffects == 2
\* granularity of the clock, in ms
TickMs == 1000
\* granularity of the clock where flips inside the debounce window are told
\* apart, in ms
FineTickMs == 500
\* values of Math.random(), in 1/10000
RandomDraws == {0, 9999}

VARIABLES
  isInitialized,        \* realtimeManager.ts:271
  reconnectAttempts,    \* realtimeManager.ts:259
  channelRefs,          \* realtimeManager.ts:265, sequence of handles
  keepAliveInterval,    \* realtimeManager.ts:268, interval id, 0 for null
  isReconnecting,       \* realtimeManager.ts:274
  timeSinceLastChange,  \* Date.now() - lastVisibilityChange, capped at the debounce
  live,                 \* handles opened by subscribe() and not yet through removeChannel
  timers,               \* number of pending setTimeout callbacks
  intervals,            \* ids of the active setInterval timers
  intervalSeq,          \* last interval id handed out by setInterval
  listeners,            \* registrations per event of the host environment
  cycles,               \* suspended handler activations, by slot
  probes,               \* keepalive queries in flight
  bus,                  \* the two hooks and the listener list of window, see below
  sinceFlip,            \* history: ms since the previous visibilitychange event, capped
  armedDelay,           \* history: delay given to setTimeout by the last step, 0 if none
  last                  \* history: the last step taken, when it is one of Notable

\* the fields of bus
hooks == bus.hooks            \* useRealtimeSubscription instances: their dependencies and listener
registered == bus.registered  \* listeners registered on window, in registration order
effectSeq == bus.effectSeq    \* number of handleEvent closures created so far
published == bus.published    \* the CustomEvent dispatched by this step, NoEvent if none
delivered == bus.delivered    \* the callbacks that dispatch invoked, in order
removed == bus.removed        \* history: the listeners removeEventListener was called for
hidden == bus.hidden          \* document.hidden as usePageVisibility reads it
visPc == bus.visPc            \* usePageVisibility: "unmounted", "rendered", "listening"
isVisible == bus.isVisible    \* usePageVisibility.ts:8

busVars == bus

vars == <<busVars, isInitialized, reconnectAttempts, channelRefs, keepAliveInterval,
          isReconnecting, timeSinceLastChange, live, timers,
          intervals, intervalSeq, listeners, cycles, probes, sinceFlip, armedDelay, last>>

\* the program's own variables, without the history variables
progVars == <<isInitialized, reconnectAttempts, channelRefs, keepAliveInterval,
              isReconnecting, timeSinceLastChange, live, timers,
              intervals, intervalSeq, listeners, cycles, probes>>

\* ---- helpers -----------------------------------------------------------
Min(a, b) == IF a < b THEN a ELSE b

RECURSIVE Pow2(_)
Pow2(n) == IF n = 0 THEN 1 ELSE 2 * Pow2(n - 1)

Range(s) == {s[i] : i \in 1..Len(s)}

\* slot 0 holds the activation that took the guard (timer callback or
\* foreground handler), the other slots the activations that take none
Slots == 0..MaxUnguarded

Idle == [kind |-> "idle", pc |-> "idle", arr |-> <<>>, i |-> 0]

Busy == {c \in Slots : cycles[c] # Idle}

SlotsOf(kind) == IF kind \in {"timer", "visible"} THEN {0} ELSE Slots \ {0}

FreeSlot(kind) == CHOOSE c \in SlotsOf(kind) :
                    cycles[c] = Idle /\ \A d \in SlotsOf(kind) : d < c => cycles[d] # Idle

\* generations of the handles some part of the state still refers to
UsedGens == {h.gen : h \in live \cup Range(channelRefs)
                        \cup UNION {Range(cycles[c].arr) : c \in Slots}}

FreeGens == (1..MaxGen) \ UsedGens

FreshGen == CHOOSE g \in FreeGens : \A g2 \in FreeGens : g <= g2

\* handler activations in flight that will call subscribeToChannels
Reopening == {c \in Busy : cycles[c].kind \notin {"signout", "unload"}}

\* a new activation can be suspended, and every activation in flight,
\* this one included, will find an unused handle generation
CanStart(kind) ==
  /\ \E c \in SlotsOf(kind) : cycles[c] = Idle
  /\ kind \notin {"signout", "unload"} => Cardinality(FreeGens) > Cardinality(Reopening)

\* the steps the history variable last tells apart; every other step
\* leaves "-" in it
Notable == {"SUBSCRIBED:reset", "failure:inflight", "failure:max", "getSession:throws",
            "visible:started", "visible:atmax", "visible:twice", "hidden:timer-pending",
            "online:atmax", "getSession:valid", "getSession:error",
            "removeChannel:rejected:last", "TIMED_OUT:idle",
            "signout:done", "timer:signedout", "timer:skipped",
            "visible:inflight", "probe:ok"}

Step(op) == IF op \in Notable THEN op ELSE "-"

\* nothing is in flight or pending, the counter is 0 and the four
\* subscriptions of the tracked set are open
QuietAtZero ==
  /\ reconnectAttempts = 0 /\ ~isReconnecting /\ timers = 0 /\ probes = 0
  /\ Busy = {} /\ channelRefs # <<>> /\ live = Range(channelRefs)

\* activation c is the callback of the first backoff timer and nothing
\* else is in flight or pending
FirstRetry(c) ==
  /\ cycles[c].kind = "timer" /\ Busy = {c}
  /\ reconnectAttempts = 1 /\ timers = 0 /\ probes = 0

\* activation c is the SIGNED_OUT handler at its last removeChannel, nothing
\* else is in flight and a backoff timer armed earlier is pending
SignOutEnds(c) ==
  /\ cycles[c].kind = "signout" /\ cycles[c].i = Len(cycles[c].arr)
  /\ Busy = {c} /\ ~isReconnecting /\ timers > 0 /\ probes = 0

\* what a call of scheduleReconnect() meets: a reconnect in flight, the
\* counter at its maximum, or neither
Failure == IF isReconnecting THEN "failure:inflight"
           ELSE IF reconnectAttempts >= MAX_RECONNECT_ATTEMPTS THEN "failure:max"
           ELSE "failure:armed"

\* a getBackoffDelay that takes the counter after its increment as exponent
getBackoffDelay_ExponentAfterIncrement(attempt, random) ==
  LET delay == Min(BASE_DELAY * Pow2(attempt + 1), MAX_DELAY)
      jitter == (random * 3 * delay) \div 100000
  IN  delay + jitter

\* ---- getBackoffDelay (realtimeManager.ts:281-285) ------------------------
getBackoffDelay(attempt, random) ==
  LET delay == Min(BASE_DELAY * Pow2(attempt), MAX_DELAY)
      jitter == (random * 3 * delay) \div 100000
  IN  delay + jitter

\* a scheduleReconnect without the check of the maximum
scheduleReconnect_NoMaxCheck(random) ==
  IF isReconnecting
  THEN UNCHANGED <<reconnectAttempts, timers>> /\ armedDelay' = 0
  ELSE /\ armedDelay' = getBackoffDelay(reconnectAttempts, random)
       /\ reconnectAttempts' = reconnectAttempts + 1
       /\ timers' = timers + 1

\* a scheduleReconnect that compares the counter with > instead of >=
scheduleReconnect_OffByOne(random) ==
  IF isReconnecting
  THEN UNCHANGED <<reconnectAttempts, timers>> /\ armedDelay' = 0
  ELSE IF reconnectAttempts > MAX_RECONNECT_ATTEMPTS
  THEN UNCHANGED <<reconnectAttempts, timers>> /\ armedDelay' = 0
  ELSE /\ armedDelay' = getBackoffDelay(reconnectAttempts, random)
       /\ reconnectAttempts' = reconnectAttempts + 1
       /\ timers' = timers + 1

\* a scheduleReconnect without the check of the in-flight guard
scheduleReconnect_NoInFlightCheck(random) ==
  IF reconnectAttempts >= MAX_RECONNECT_ATTEMPTS
  THEN UNCHANGED <<reconnectAttempts, timers>> /\ armedDelay' = 0
  ELSE /\ armedDelay' = getBackoffDelay(reconnectAttempts, random)
       /\ reconnectAttempts' = reconnectAttempts + 1
       /\ timers' = timers + 1

\* a scheduleReconnect that arms the timer and leaves the counter
scheduleReconnect_ArmsWithoutCount(random) ==
  IF isReconnecting
  THEN UNCHANGED <<reconnectAttempts, timers>> /\ armedDelay' = 0
  ELSE IF reconnectAttempts >= MAX_RECONNECT_ATTEMPTS
  THEN UNCHANGED <<reconnectAttempts, timers>> /\ armedDelay' = 0
  ELSE /\ armedDelay' = getBackoffDelay(reconnectAttempts, random)
       /\ UNCHANGED reconnectAttempts
       /\ timers' = timers + 1

\* ---- scheduleReconnect (realtimeManager.ts:384-427) ----------------------
\* the part that runs at the call: both guards, the delay, the counter and
\* the arming of the timer; the timer callback is TimerFires below
scheduleReconnect(random) ==
  IF isReconnecting
  THEN UNCHANGED <<reconnectAttempts, timers>> /\ armedDelay' = 0
  ELSE IF reconnectAttempts >= MAX_RECONNECT_ATTEMPTS
  THEN UNCHANGED <<reconnectAttempts, timers>> /\ armedDelay' = 0
  ELSE /\ armedDelay' = getBackoffDelay(reconnectAttempts, random)
       /\ reconnectAttempts' = reconnectAttempts + 1
       /\ timers' = timers + 1

\* the call would arm a timer
WouldArm == ~isReconnecting /\ reconnectAttempts < MAX_RECONNECT_ATTEMPTS

\* a handleSubscriptionStatus that keeps the counter on SUBSCRIBED
handleSubscriptionStatus_NoReset(status, random) ==
  IF status = "CLOSED" \/ status = "CHANNEL_ERROR"
  THEN scheduleReconnect(random)
  ELSE UNCHANGED <<reconnectAttempts, timers>> /\ armedDelay' = 0

\* ---- handleSubscriptionStatus (realtimeManager.ts:367-379) ---------------
handleSubscriptionStatus(status, random) ==
  IF status = "SUBSCRIBED"
  THEN reconnectAttempts' = 0 /\ UNCHANGED timers /\ armedDelay' = 0
  ELSE IF status = "CLOSED" \/ status = "CHANNEL_ERROR"
  THEN scheduleReconnect(random)
  ELSE UNCHANGED <<reconnectAttempts, timers>> /\ armedDelay' = 0

\* ---- subscribeToChannels (realtimeManager.ts:307-362) --------------------
\* four subscriptions are opened and channelRefs is overwritten with them;
\* liveNow are the unreleased handles at the call
NewHandles == [n \in 1..Len(TopicOrder) |-> [topic |-> TopicOrder[n], gen |-> FreshGen]]

\* a subscribeToChannels that opens no channel
subscribeToChannels_OpensNothing(liveNow) ==
  /\ channelRefs' = <<>>
  /\ live' = liveNow

subscribeToChannels(liveNow) ==
  /\ channelRefs' = NewHandles
  /\ live' = liveNow \cup Range(NewHandles)

\* ---- startKeepalive (realtimeManager.ts:433-463) -------------------------
startKeepalive ==
  /\ intervalSeq' = intervalSeq + 1
  /\ keepAliveInterval' = intervalSeq + 1
  /\ intervals' = (IF keepAliveInterval # 0 THEN intervals \ {keepAliveInterval} ELSE intervals)
                    \cup {intervalSeq + 1}

\* clearInterval(keepAliveInterval) when it is set
ClearKeepalive == IF keepAliveInterval # 0 THEN intervals \ {keepAliveInterval} ELSE intervals

\* a sign-out continuation that leaves the keepalive timer running
AfterCleanup_KeepaliveKept(c, kind, liveNow, guard) ==
  IF kind = "timer"
  THEN /\ channelRefs' = <<>>
       /\ live' = liveNow
       /\ cycles' = [cycles EXCEPT ![c] = [kind |-> kind, pc |-> "getSession", arr |-> <<>>, i |-> 0]]
       /\ isReconnecting' = guard
       /\ UNCHANGED <<keepAliveInterval, intervals>>
  ELSE IF kind \in {"signout", "unload"}
  THEN /\ channelRefs' = <<>>
       /\ live' = liveNow
       /\ cycles' = [cycles EXCEPT ![c] = Idle]
       /\ isReconnecting' = guard
       /\ UNCHANGED <<keepAliveInterval, intervals>>
  ELSE /\ subscribeToChannels(liveNow)
       /\ cycles' = [cycles EXCEPT ![c] = Idle]
       /\ isReconnecting' = (IF kind = "visible" THEN FALSE ELSE guard)
       /\ UNCHANGED <<keepAliveInterval, intervals>>

\* ---- the continuation of a handler after cleanupSubscriptions ----------
\* cleanupSubscriptions ends with channelRefs = [] (realtimeManager.ts:301);
\* what follows depends on the handler that awaited it:
\*   "timer"    realtimeManager.ts:413  await supabase.auth.getSession()
\*   "visible"  realtimeManager.ts:500-507  subscribeToChannels, guard cleared
\*   "reopen"   realtimeManager.ts:540 (online), realtimeManager.ts:556
\*              (SIGNED_IN, TOKEN_REFRESHED)  subscribeToChannels
\*   "signout"  realtimeManager.ts:560-563  the keepalive timer is cleared
\*   "unload"   realtimeManager.ts:570  nothing, the promise is dropped
\* liveNow are the unreleased handles and guard the value of isReconnecting
\* when the continuation runs.
AfterCleanup(c, kind, liveNow, guard) ==
  IF kind = "timer"
  THEN /\ channelRefs' = <<>>
       /\ live' = liveNow
       /\ cycles' = [cycles EXCEPT ![c] = [kind |-> kind, pc |-> "getSession", arr |-> <<>>, i |-> 0]]
       /\ isReconnecting' = guard
       /\ UNCHANGED <<keepAliveInterval, intervals>>
  ELSE IF kind = "signout"
  THEN /\ channelRefs' = <<>>
       /\ live' = liveNow
       /\ cycles' = [cycles EXCEPT ![c] = Idle]
       /\ isReconnecting' = guard
       /\ keepAliveInterval' = 0
       /\ intervals' = ClearKeepalive
  ELSE IF kind = "unload"
  THEN /\ channelRefs' = <<>>
       /\ live' = liveNow
       /\ cycles' = [cycles EXCEPT ![c] = Idle]
       /\ isReconnecting' = guard
       /\ UNCHANGED <<keepAliveInterval, intervals>>
  ELSE /\ subscribeToChannels(liveNow)
       /\ cycles' = [cycles EXCEPT ![c] = Idle]
       /\ isReconnecting' = (IF kind = "visible" THEN FALSE ELSE guard)
       /\ UNCHANGED <<keepAliveInterval, intervals>>

\* ---- cleanupSubscriptions (realtimeManager.ts:290-302), up to its first await
\* The for-of loop iterates the array channelRefs refers to when the loop
\* starts; with no handle to release the function completes at once and the
\* handler continues.  guard is the value of isReconnecting at the call.
StartCleanup(c, kind, guard) ==
  IF channelRefs = <<>>
  THEN AfterCleanup(c, kind, live, guard)
  ELSE /\ cycles' = [cycles EXCEPT ![c] = [kind |-> kind, pc |-> "removing", arr |-> channelRefs, i |-> 1]]
       /\ isReconnecting' = guard
       /\ UNCHANGED <<channelRefs, live, keepAliveInterval, intervals>>

\* a teardown that a rejected removeChannel aborts, with its handler
RemoveChannelReturns_RejectionPropagates(c, ok) ==
  /\ cycles[c].pc = "removing"
  /\ LET h == cycles[c].arr[cycles[c].i]
         liveNow == live \ {h}
     IN  IF ~ok
         THEN /\ cycles' = [cycles EXCEPT ![c] = Idle]
              /\ live' = liveNow
              /\ isReconnecting' = (IF cycles[c].kind = "timer" THEN FALSE ELSE isReconnecting)
              /\ UNCHANGED <<channelRefs, keepAliveInterval, intervals>>
         ELSE IF cycles[c].i < Len(cycles[c].arr)
         THEN /\ cycles' = [cycles EXCEPT ![c].i = @ + 1]
              /\ live' = liveNow
              /\ UNCHANGED <<channelRefs, isReconnecting, keepAliveInterval, intervals>>
         ELSE AfterCleanup(c, cycles[c].kind, liveNow, isReconnecting)
  /\ last' = Step(IF SignOutEnds(c) THEN "signout:done"
                   ELSE IF ok \/ ~FirstRetry(c) THEN "removeChannel"
                   ELSE IF cycles[c].i = Len(cycles[c].arr) THEN "removeChannel:rejected:last"
                   ELSE "removeChannel:rejected")
  /\ armedDelay' = 0
  /\ UNCHANGED <<busVars, sinceFlip, isInitialized, reconnectAttempts, timeSinceLastChange, timers,
                 intervalSeq, listeners, probes>>

\* ---- one await supabase.removeChannel(channel) returns (realtimeManager.ts:293-301)
\* ok: the call resolves; ~ok: it is rejected, the catch logs it and the
\* loop goes on.  Either way the handle has been through removeChannel and
\* the manager holds no further reference to it once channelRefs is
\* reassigned.  After the last handle the function assigns channelRefs = []
\* and the awaiting handler continues.
RemoveChannelReturns(c, ok) ==
  /\ cycles[c].pc = "removing"
  /\ LET h == cycles[c].arr[cycles[c].i]
         liveNow == live \ {h}
     IN  IF cycles[c].i < Len(cycles[c].arr)
         THEN /\ cycles' = [cycles EXCEPT ![c].i = @ + 1]
              /\ live' = liveNow
              /\ UNCHANGED <<channelRefs, isReconnecting, keepAliveInterval, intervals>>
         ELSE AfterCleanup(c, cycles[c].kind, liveNow, isReconnecting)
  /\ last' = Step(IF SignOutEnds(c) THEN "signout:done"
                   ELSE IF ok \/ ~FirstRetry(c) THEN "removeChannel"
                   ELSE IF cycles[c].i = Len(cycles[c].arr) THEN "removeChannel:rejected:last"
                   ELSE "removeChannel:rejected")
  /\ armedDelay' = 0
  /\ UNCHANGED <<busVars, sinceFlip, isInitialized, reconnectAttempts, timeSinceLastChange, timers,
                 intervalSeq, listeners, probes>>

\* a timer callback without the finally block: a throwing session check
\* leaves the guard set
GetSessionReturns_NoFinally(c, result) ==
  /\ cycles[c].pc = "getSession"
  /\ IF result = "throws"
     THEN UNCHANGED <<channelRefs, live, isReconnecting>>
     ELSE subscribeToChannels(live) /\ isReconnecting' = FALSE
  /\ cycles' = [cycles EXCEPT ![c] = Idle]
  /\ last' = Step(IF result = "throws" \/ FirstRetry(c) THEN "getSession:" \o result
                   ELSE "getSession")
  /\ armedDelay' = 0
  /\ UNCHANGED <<busVars, sinceFlip, isInitialized, reconnectAttempts, keepAliveInterval, timeSinceLastChange,
                 timers, intervals, intervalSeq, listeners, probes>>

\* a timer callback that reopens the subscriptions only with a session
GetSessionReturns_ValidSessionOnly(c, result) ==
  /\ cycles[c].pc = "getSession"
  /\ IF result = "valid"
     THEN subscribeToChannels(live)
     ELSE UNCHANGED <<channelRefs, live>>
  /\ isReconnecting' = FALSE
  /\ cycles' = [cycles EXCEPT ![c] = Idle]
  /\ last' = Step(IF result = "throws" \/ FirstRetry(c) THEN "getSession:" \o result
                   ELSE "getSession")
  /\ armedDelay' = 0
  /\ UNCHANGED <<busVars, sinceFlip, isInitialized, reconnectAttempts, keepAliveInterval, timeSinceLastChange,
                 timers, intervals, intervalSeq, listeners, probes>>

\* ---- await supabase.auth.getSession() returns in the timer callback
\* (realtimeManager.ts:413-425).  result: "valid", "none" and "error" are
\* logged and subscribeToChannels runs; "throws" skips it.  The finally
\* block clears the guard on every path.
GetSessionReturns(c, result) ==
  /\ cycles[c].pc = "getSession"
  /\ IF result = "throws"
     THEN UNCHANGED <<channelRefs, live>>
     ELSE subscribeToChannels(live)
  /\ isReconnecting' = FALSE
  /\ cycles' = [cycles EXCEPT ![c] = Idle]
  /\ last' = Step(IF result = "throws" \/ FirstRetry(c) THEN "getSession:" \o result
                   ELSE "getSession")
  /\ armedDelay' = 0
  /\ UNCHANGED <<busVars, sinceFlip, isInitialized, reconnectAttempts, keepAliveInterval, timeSinceLastChange,
                 timers, intervals, intervalSeq, listeners, probes>>

\* a timer callback that arms a replacement timer when it finds the guard set
TimerFires_SkipRearms ==
  /\ timers > 0
  /\ timers' = (IF isReconnecting THEN timers ELSE timers - 1)
  /\ IF isReconnecting
     THEN /\ last' = Step(IF Busy = {0} /\ probes = 0 /\ timers = 1 THEN "timer:skipped"
                           ELSE "timer:dropped")
          /\ UNCHANGED <<channelRefs, live, cycles, isReconnecting, keepAliveInterval, intervals>>
     ELSE /\ CanStart("timer")
          /\ last' = Step(IF last = "signout:done" THEN "timer:signedout" ELSE "timer")
          /\ StartCleanup(FreeSlot("timer"), "timer", TRUE)
  /\ armedDelay' = 0
  /\ UNCHANGED <<busVars, sinceFlip, isInitialized, reconnectAttempts, timeSinceLastChange, 
                 intervalSeq, listeners, probes>>

\* ---- the setTimeout callback of scheduleReconnect (realtimeManager.ts:400-426)
TimerFires ==
  /\ timers > 0
  /\ timers' = timers - 1
  /\ IF isReconnecting
     THEN /\ last' = Step(IF Busy = {0} /\ probes = 0 /\ timers = 1 THEN "timer:skipped"
                           ELSE "timer:dropped")
          /\ UNCHANGED <<channelRefs, live, cycles, isReconnecting, keepAliveInterval, intervals>>
     ELSE /\ CanStart("timer")
          /\ last' = Step(IF last = "signout:done" THEN "timer:signedout" ELSE "timer")
          /\ StartCleanup(FreeSlot("timer"), "timer", TRUE)
  /\ armedDelay' = 0
  /\ UNCHANGED <<busVars, sinceFlip, isInitialized, reconnectAttempts, timeSinceLastChange, 
                 intervalSeq, listeners, probes>>

\* ---- a subscription reports a status to its callback
\* (realtimeManager.ts:319-322, 331-334, 343-346, 355-358)
FailureStatuses == {"CLOSED", "CHANNEL_ERROR"}

StatusEvent(status, random) ==
  /\ live # {}
  /\ (status \in FailureStatuses /\ WouldArm) => timers < MaxTimers
  /\ handleSubscriptionStatus(status, random)
  /\ last' = Step(IF status \in FailureStatuses THEN Failure
                   ELSE IF status = "SUBSCRIBED" /\ reconnectAttempts > 0 THEN "SUBSCRIBED:reset"
                   ELSE IF status = "TIMED_OUT" /\ QuietAtZero THEN "TIMED_OUT:idle"
                   ELSE status)
  /\ UNCHANGED <<busVars, sinceFlip, isInitialized, channelRefs, keepAliveInterval, isReconnecting,
                 timeSinceLastChange, live, intervals, intervalSeq,
                 listeners, cycles, probes>>

\* ---- a further subscription reports a failure status while a backoff timer
\* is pending (realtimeManager.ts:319-322, 331-334, 343-346, 355-358): the
\* four subscriptions share one socket and fail together
FailureBurst(status, random) ==
  /\ live # {}
  /\ status \in FailureStatuses
  /\ timers >= MaxTimers /\ timers < MaxBurst
  /\ handleSubscriptionStatus(status, random)
  /\ last' = Step(Failure)
  /\ UNCHANGED <<busVars, sinceFlip, isInitialized, channelRefs, keepAliveInterval, isReconnecting,
                 timeSinceLastChange, live, intervals, intervalSeq,
                 listeners, cycles, probes>>

\* ---- a handle that teardown c has already released reports CLOSED to its
\* status callback (realtimeManager.ts:319-322): the callback stays attached
\* to the channel object after removeChannel (realtimeManager.ts:293-295)
ClosedAfterRelease(c, random) ==
  /\ cycles[c].pc = "removing" /\ cycles[c].i > 1
  /\ cycles[c].arr[cycles[c].i - 1] \notin live
  /\ WouldArm => timers < MaxTimers
  /\ handleSubscriptionStatus("CLOSED", random)
  /\ last' = Step(Failure)
  /\ UNCHANGED <<busVars, sinceFlip, isInitialized, channelRefs, keepAliveInterval, isReconnecting,
                 timeSinceLastChange, live, intervals, intervalSeq,
                 listeners, cycles, probes>>

\* ---- the setInterval callback of startKeepalive (realtimeManager.ts:442-462)
\* up to its await: the query is sent
KeepaliveFires ==
  /\ intervals # {}
  /\ probes < MaxProbes
  /\ probes' = probes + 1
  /\ last' = Step("keepalive")
  /\ armedDelay' = 0
  /\ UNCHANGED <<busVars, sinceFlip, isInitialized, reconnectAttempts, channelRefs, keepAliveInterval,
                 isReconnecting, timeSinceLastChange, live, timers,
                 intervals, intervalSeq, listeners, cycles>>

\* a keepalive that takes a successful query for a successful connection
ProbeReturns_SuccessResets(result, random) ==
  /\ probes > 0
  /\ probes' = probes - 1
  /\ (result = "error" /\ WouldArm) => timers < MaxTimers
  /\ IF result = "error"
     THEN scheduleReconnect(random)
     ELSE IF result = "ok"
     THEN reconnectAttempts' = 0 /\ UNCHANGED timers /\ armedDelay' = 0
     ELSE UNCHANGED <<reconnectAttempts, timers>> /\ armedDelay' = 0
  /\ last' = Step(IF result = "error" THEN Failure
                   ELSE IF result = "ok" /\ reconnectAttempts = 1 /\ timers = 1 /\ Busy = {}
                   THEN "probe:ok"
                   ELSE "probe")
  /\ UNCHANGED <<busVars, sinceFlip, isInitialized, channelRefs, keepAliveInterval, isReconnecting,
                 timeSinceLastChange, live, intervals, intervalSeq,
                 listeners, cycles>>

\* the query returns: "ok", "error" (an error result, realtimeManager.ts:450-454)
\* or "throws" (the catch block, realtimeManager.ts:458-461)
ProbeReturns(result, random) ==
  /\ probes > 0
  /\ probes' = probes - 1
  /\ (result = "error" /\ WouldArm) => timers < MaxTimers
  /\ IF result = "error"
     THEN scheduleReconnect(random)
     ELSE UNCHANGED <<reconnectAttempts, timers>> /\ armedDelay' = 0
  /\ last' = Step(IF result = "error" THEN Failure
                   ELSE IF result = "ok" /\ reconnectAttempts = 1 /\ timers = 1 /\ Busy = {}
                   THEN "probe:ok"
                   ELSE "probe")
  /\ UNCHANGED <<busVars, sinceFlip, isInitialized, channelRefs, keepAliveInterval, isReconnecting,
                 timeSinceLastChange, live, intervals, intervalSeq,
                 listeners, cycles>>

\* a debounce test that lets every flip through
Debounced_Never == FALSE

\* the flip comes inside the debounce window (realtimeManager.ts:473-477)
Debounced == timeSinceLastChange < VISIBILITY_DEBOUNCE

\* a handleVisibilityChange that keeps the counter on a foreground flip
VisibilityChange_NoReset(docHidden) ==
  /\ listeners.visibilitychange > 0
  /\ IF Debounced
     THEN /\ last' = Step("visibility:debounced")
          /\ UNCHANGED <<timeSinceLastChange, reconnectAttempts, channelRefs, live, cycles,
                         isReconnecting, keepAliveInterval, intervals>>
     ELSE /\ timeSinceLastChange' = 0
          /\ IF docHidden \/ isReconnecting
             THEN /\ last' = Step("visibility:hidden")
                  /\ UNCHANGED <<reconnectAttempts, channelRefs, live, cycles,
                                 isReconnecting, keepAliveInterval, intervals>>
             ELSE /\ CanStart("visible")
                  /\ last' = Step("visible:started")
                  /\ UNCHANGED reconnectAttempts
                  /\ StartCleanup(FreeSlot("visible"), "visible", TRUE)
  /\ sinceFlip' = 0
  /\ UNCHANGED busVars
  /\ armedDelay' = 0
  /\ UNCHANGED <<isInitialized, timers, intervalSeq, listeners, probes>>

\* a handleVisibilityChange without the document.hidden branch
VisibilityChange_NoHiddenBranch(docHidden) ==
  /\ listeners.visibilitychange > 0
  /\ IF Debounced
     THEN /\ last' = Step("visibility:debounced")
          /\ UNCHANGED <<timeSinceLastChange, reconnectAttempts, channelRefs, live, cycles,
                         isReconnecting, keepAliveInterval, intervals>>
     ELSE /\ timeSinceLastChange' = 0
          /\ IF isReconnecting
             THEN /\ last' = Step("visibility:skipped")
                  /\ UNCHANGED <<reconnectAttempts, channelRefs, live, cycles,
                                 isReconnecting, keepAliveInterval, intervals>>
             ELSE /\ CanStart("visible")
                  /\ last' = Step("visible:started")
                  /\ reconnectAttempts' = 0
                  /\ StartCleanup(FreeSlot("visible"), "visible", TRUE)
  /\ sinceFlip' = 0
  /\ UNCHANGED busVars
  /\ armedDelay' = 0
  /\ UNCHANGED <<isInitialized, timers, intervalSeq, listeners, probes>>

\* a handleVisibilityChange that resets the counter before it checks the guard
VisibilityChange_ResetsInFlight(docHidden) ==
  /\ listeners.visibilitychange > 0
  /\ IF Debounced
     THEN /\ last' = Step(IF ~docHidden /\ last \in {"visible:started", "visible:atmax"}
                          THEN "visible:twice" ELSE "visibility:debounced")
          /\ UNCHANGED <<timeSinceLastChange, reconnectAttempts, channelRefs, live, cycles,
                         isReconnecting, keepAliveInterval, intervals>>
     ELSE /\ timeSinceLastChange' = 0
          /\ IF docHidden
             THEN /\ last' = Step(IF timers > 0 THEN "hidden:timer-pending"
                                   ELSE "visibility:hidden")
                  /\ UNCHANGED <<reconnectAttempts, channelRefs, live, cycles,
                                 isReconnecting, keepAliveInterval, intervals>>
             ELSE IF isReconnecting
             THEN /\ last' = Step(IF Busy = {0} /\ probes = 0 /\ timers = 0
                                   THEN "visible:inflight" ELSE "visibility:skipped")
                  /\ reconnectAttempts' = 0
                  /\ UNCHANGED <<channelRefs, live, cycles,
                                 isReconnecting, keepAliveInterval, intervals>>
             ELSE /\ CanStart("visible")
                  /\ last' = Step(IF reconnectAttempts = MAX_RECONNECT_ATTEMPTS
                                   THEN "visible:atmax" ELSE "visible:started")
                  /\ reconnectAttempts' = 0
                  /\ StartCleanup(FreeSlot("visible"), "visible", TRUE)
  /\ sinceFlip' = 0
  /\ UNCHANGED busVars
  /\ armedDelay' = 0
  /\ UNCHANGED <<isInitialized, timers, intervalSeq, listeners, probes>>

\* ---- handleVisibilityChange (realtimeManager.ts:469-509) ------------------
\* a visibilitychange event is delivered to the registered listener;
\* docHidden is document.hidden at that moment
VisibilityChange(docHidden) ==
  /\ listeners.visibilitychange > 0
  /\ IF Debounced
     THEN /\ last' = Step(IF ~docHidden /\ last \in {"visible:started", "visible:atmax"}
                          THEN "visible:twice" ELSE "visibility:debounced")
          /\ UNCHANGED <<timeSinceLastChange, reconnectAttempts, channelRefs, live, cycles,
                         isReconnecting, keepAliveInterval, intervals>>
     ELSE /\ timeSinceLastChange' = 0
          /\ IF docHidden
             THEN /\ last' = Step(IF timers > 0 THEN "hidden:timer-pending"
                                   ELSE "visibility:hidden")
                  /\ UNCHANGED <<reconnectAttempts, channelRefs, live, cycles,
                                 isReconnecting, keepAliveInterval, intervals>>
             ELSE IF isReconnecting
             THEN /\ last' = Step(IF Busy = {0} /\ probes = 0 /\ timers = 0
                                   THEN "visible:inflight" ELSE "visibility:skipped")
                  /\ UNCHANGED <<reconnectAttempts, channelRefs, live, cycles,
                                 isReconnecting, keepAliveInterval, intervals>>
             ELSE /\ CanStart("visible")
                  /\ last' = Step(IF reconnectAttempts = MAX_RECONNECT_ATTEMPTS
                                   THEN "visible:atmax" ELSE "visible:started")
                  /\ reconnectAttempts' = 0
                  /\ StartCleanup(FreeSlot("visible"), "visible", TRUE)
  /\ sinceFlip' = 0
  /\ UNCHANGED busVars
  /\ armedDelay' = 0
  /\ UNCHANGED <<isInitialized, timers, intervalSeq, listeners, probes>>

\* an 'online' listener that goes through the backoff
Online_ThroughBackoff ==
  /\ listeners.online > 0
  /\ WouldArm => timers < MaxTimers
  /\ \E random \in RandomDraws : scheduleReconnect(random)
  /\ last' = Step("online")
  /\ UNCHANGED <<busVars, sinceFlip, isInitialized, channelRefs, keepAliveInterval, isReconnecting,
                 timeSinceLastChange, live, intervals, intervalSeq, listeners, cycles, probes>>

\* ---- the 'online' listener (realtimeManager.ts:538-541) -------------------
Online ==
  /\ listeners.online > 0
  /\ CanStart("reopen")
  /\ StartCleanup(FreeSlot("reopen"), "reopen", isReconnecting)
  /\ last' = Step(IF reconnectAttempts = MAX_RECONNECT_ATTEMPTS THEN "online:atmax" ELSE "online")
  /\ armedDelay' = 0
  /\ UNCHANGED <<busVars, sinceFlip, isInitialized, reconnectAttempts, timeSinceLastChange, 
                 timers, intervalSeq, listeners, probes>>

\* ---- the 'offline' listener (realtimeManager.ts:543-545) ------------------
Offline ==
  /\ listeners.offline > 0
  /\ last' = Step("offline")
  /\ armedDelay' = 0
  /\ UNCHANGED <<busVars, sinceFlip, isInitialized, reconnectAttempts, channelRefs, keepAliveInterval,
                 isReconnecting, timeSinceLastChange, live, timers,
                 intervals, intervalSeq, listeners, cycles, probes>>

\* ---- the onAuthStateChange listener (realtimeManager.ts:548-565) ----------
AuthStateChange(event) ==
  /\ listeners.auth > 0
  /\ LET kind == IF event = "SIGNED_OUT" THEN "signout" ELSE "reopen"
     IN  CanStart(kind) /\ StartCleanup(FreeSlot(kind), kind, isReconnecting)
  /\ last' = Step(event)
  /\ armedDelay' = 0
  /\ UNCHANGED <<busVars, sinceFlip, isInitialized, reconnectAttempts, timeSinceLastChange, 
                 timers, intervalSeq, listeners, probes>>

\* ---- the 'beforeunload' listener (realtimeManager.ts:568-574) -------------
\* cleanupSubscriptions() is called and not awaited: the handler goes on to
\* clearInterval at once (keepAliveInterval keeps the cleared id) while the
\* teardown continues on its own.  The page can outlive the event (a
\* cancelled navigation, a download link): UnloadSpec goes on after it.
BeforeUnload ==
  /\ listeners.beforeunload > 0
  /\ CanStart("unload")
  /\ LET c == FreeSlot("unload")
     IN  IF channelRefs = <<>>
         THEN UNCHANGED <<channelRefs, live, cycles>>
         ELSE /\ cycles' = [cycles EXCEPT ![c] = [kind |-> "unload", pc |-> "removing",
                                                  arr |-> channelRefs, i |-> 1]]
              /\ UNCHANGED <<channelRefs, live>>
  /\ intervals' = ClearKeepalive
  /\ last' = Step("beforeunload")
  /\ armedDelay' = 0
  /\ UNCHANGED <<busVars, sinceFlip, isInitialized, reconnectAttempts, keepAliveInterval, isReconnecting,
                 timeSinceLastChange, timers, intervalSeq, listeners, probes>>

\* an initRealtimeManager without the isInitialized check
initRealtimeManager_NoGuard ==
  /\ last' = Step("init")
  /\ isInitialized' = TRUE
  /\ subscribeToChannels(live)
  /\ startKeepalive
  /\ listeners' = [e \in DOMAIN listeners |-> listeners[e] + 1]

\* ---- initRealtimeManager (realtimeManager.ts:515-577) ---------------------
\* called by the entry module (LeadDatabase.tsx:323) and by the effect of
\* App (App.tsx:28)
initRealtimeManager ==
  IF isInitialized
  THEN /\ last' = Step("init:again")
       /\ UNCHANGED <<isInitialized, channelRefs, live, keepAliveInterval, intervals,
                      intervalSeq, listeners>>
  ELSE /\ last' = Step("init")
       /\ isInitialized' = TRUE
       /\ subscribeToChannels(live)
       /\ startKeepalive
       /\ listeners' = [e \in DOMAIN listeners |-> listeners[e] + 1]

InitCall ==
  /\ initRealtimeManager
  /\ armedDelay' = 0
  /\ UNCHANGED <<busVars, sinceFlip, reconnectAttempts, isReconnecting, timeSinceLastChange, 
                 timers, cycles, probes>>

\* ---- the clock advances ---------------------------------------------------
\* Date.now() - lastVisibilityChange grows by ms; beyond the debounce window
\* its value makes no difference (realtimeManager.ts:470-474)
Advance(ms) ==
  /\ timeSinceLastChange < VISIBILITY_DEBOUNCE \/ sinceFlip < VISIBILITY_DEBOUNCE
  /\ timeSinceLastChange' = Min(timeSinceLastChange + ms, VISIBILITY_DEBOUNCE)
  /\ sinceFlip' = Min(sinceFlip + ms, VISIBILITY_DEBOUNCE)
  /\ UNCHANGED <<isInitialized, reconnectAttempts, channelRefs, keepAliveInterval,
                 isReconnecting, live, timers, intervals, intervalSeq,
                 listeners, cycles, probes, busVars>>

Tick ==
  /\ Advance(TickMs)
  /\ last' = Step("tick")
  /\ armedDelay' = 0

FineTick ==
  /\ Advance(FineTickMs)
  /\ last' = Step("tick")
  /\ armedDelay' = 0

\* ---- useRealtimeSubscription (src/unnamed/part_000:7-34) ------------------
\* the table each channel watches (realtimeManager.ts:314, 326, 340, 352),
\* in the order of TopicOrder
Tables == <<"leads", "services", "consultancy_bookings_v2", "assessments">>

\* the table arguments the hook is called with
HookTables == {"leads", "bookings", "consultancy_bookings_v2"}

\* payload.eventType of a change
Payloads == {"INSERT", "DELETE"}

HookIds == 1..MaxHooks

\* part_000:19 and realtimeManager.ts:317, 329, 341, 353
EventName(key) == "supabase:" \o key \o ":change"

Unmounted == [mounted |-> FALSE, table |-> "", enabled |-> FALSE, ref |-> 0]

NoEvent == [type |-> "", table |-> "", detail |-> ""]

\* window.addEventListener(type, handleEvent): handleEvent is a new closure
\* on every run of the effect, so it is never already in the list.  throws
\* tells whether the callback the closure captured throws.
addEventListener(reg, type, hook, ref, throws) ==
  Append(reg, [type |-> type, hook |-> hook, ref |-> ref, throws |-> throws])

\* a removeEventListener that drops every listener of the event
removeEventListener_AllOfType(reg, type, ref) ==
  SelectSeq(reg, LAMBDA l : l.type # type)

\* window.removeEventListener(type, handleEvent): the listener with that
\* type and that callback reference is dropped, if it is in the list
removeEventListener(reg, type, ref) ==
  SelectSeq(reg, LAMBDA l : ~(l.type = type /\ l.ref = ref))

\* the listeners and the history after the cleanup function of the effect
\* of hook h (part_000:29-32) has run, when there is one
AfterHookCleanup(h) ==
  IF hooks[h].ref # 0
  THEN [registered |-> removeEventListener(registered, EventName(hooks[h].table), hooks[h].ref),
        removed |-> removed \cup {[type |-> EventName(hooks[h].table), ref |-> hooks[h].ref]}]
  ELSE [registered |-> registered, removed |-> removed]

\* the effect runs (part_000:13-33): at mount and when table or enabled have
\* changed; the cleanup of the previous run comes first
EffectRuns(h, table, enabled, throws) ==
  /\ effectSeq < MaxEffects
  /\ ~hooks[h].mounted \/ <<hooks[h].table, hooks[h].enabled>> # <<table, enabled>>
  /\ LET cleaned == AfterHookCleanup(h)
     IN  bus' = IF enabled
                THEN [bus EXCEPT
                        !.registered = addEventListener(cleaned.registered, EventName(table), h,
                                                        effectSeq + 1, throws),
                        !.removed = cleaned.removed,
                        !.hooks[h] = [mounted |-> TRUE, table |-> table, enabled |-> TRUE,
                                      ref |-> effectSeq + 1],
                        !.effectSeq = effectSeq + 1,
                        !.published = NoEvent, !.delivered = <<>>]
                ELSE [bus EXCEPT
                        !.registered = cleaned.registered,
                        !.removed = cleaned.removed,
                        !.hooks[h] = [mounted |-> TRUE, table |-> table, enabled |-> FALSE,
                                      ref |-> 0],
                        !.published = NoEvent, !.delivered = <<>>]
  /\ UNCHANGED <<progVars, sinceFlip, armedDelay, last>>

\* the component is unmounted: the cleanup runs
Unmount(h) ==
  /\ hooks[h].mounted
  /\ bus' = [bus EXCEPT !.registered = AfterHookCleanup(h).registered,
                        !.removed = AfterHookCleanup(h).removed,
                        !.hooks[h] = Unmounted,
                        !.published = NoEvent, !.delivered = <<>>]
  /\ UNCHANGED <<progVars, sinceFlip, armedDelay, last>>

\* a dispatch that stops at the first listener that throws
Deliveries_StopAtThrow(type, detail) ==
  LET m == SelectSeq(registered, LAMBDA l : l.type = type)
      stop == IF \E k \in 1..Len(m) : m[k].throws
              THEN CHOOSE k \in 1..Len(m) : m[k].throws /\ \A j \in 1..(k - 1) : ~m[j].throws
              ELSE Len(m)
  IN  [k \in 1..stop |-> [ref |-> m[k].ref, hook |-> m[k].hook, detail |-> detail,
                           threw |-> m[k].throws]]

\* window.dispatchEvent(new CustomEvent(type, { detail })) (realtimeManager.ts:317):
\* the listeners of that type are invoked one after the other in the order
\* they were added; handleEvent passes event.detail to the callback
\* (part_000:21-24); an exception of a listener is reported and the
\* dispatch goes on with the next one
Deliveries(type, detail) ==
  LET m == SelectSeq(registered, LAMBDA l : l.type = type)
  IN  [k \in 1..Len(m) |-> [ref |-> m[k].ref, hook |-> m[k].hook, detail |-> detail,
                             threw |-> m[k].throws]]

\* ---- the postgres_changes callback of channel n (realtimeManager.ts:314-318,
\* 326-330, 340-342, 352-354): a change of the watched table arrives on an
\* open channel and is dispatched on window
ChangeArrives(n, detail) ==
  /\ \E h \in live : h.topic = TopicOrder[n]
  /\ bus' = [bus EXCEPT
               !.published = [type |-> EventName(TopicOrder[n]), table |-> Tables[n],
                              detail |-> detail],
               !.delivered = Deliveries(EventName(TopicOrder[n]), detail)]
  /\ UNCHANGED <<progVars, sinceFlip, armedDelay, last>>

\* ---- usePageVisibility (src/src/hooks/usePageVisibility.ts:7-23) ----------
\* the first render: useState(!document.hidden)
VisibilityHookRenders ==
  /\ visPc = "unmounted"
  /\ bus' = [bus EXCEPT !.visPc = "rendered", !.isVisible = ~hidden,
                        !.published = NoEvent, !.delivered = <<>>]
  /\ UNCHANGED <<progVars, sinceFlip, armedDelay, last>>

\* the effect runs after the render has been committed: the listener is
\* added to document (usePageVisibility.ts:10-15)
VisibilityHookEffect ==
  /\ visPc = "rendered"
  /\ bus' = [bus EXCEPT !.visPc = "listening", !.published = NoEvent, !.delivered = <<>>]
  /\ UNCHANGED <<progVars, sinceFlip, armedDelay, last>>

\* the component is unmounted: the listener is removed (usePageVisibility.ts:17-19)
VisibilityHookUnmounts ==
  /\ visPc # "unmounted"
  /\ bus' = [bus EXCEPT !.visPc = "unmounted", !.published = NoEvent, !.delivered = <<>>]
  /\ UNCHANGED <<progVars, sinceFlip, armedDelay, last>>

\* the document changes its visibility and fires visibilitychange; the
\* hook's listener, when it is registered, calls setIsVisible(!document.hidden)
\* (usePageVisibility.ts:11-13)
VisibilitySignal ==
  /\ bus' = [bus EXCEPT !.hidden = ~hidden,
                        !.isVisible = IF visPc = "listening" THEN hidden ELSE isVisible,
                        !.published = NoEvent, !.delivered = <<>>]
  /\ UNCHANGED <<progVars, sinceFlip, armedDelay, last>>

\* ---- the state when the module has been loaded (realtimeManager.ts:258-276)
\* lastVisibilityChange is 0, so Date.now() - lastVisibilityChange is far
\* beyond the debounce
Init ==
  /\ isInitialized = FALSE
  /\ reconnectAttempts = 0
  /\ channelRefs = <<>>
  /\ keepAliveInterval = 0
  /\ isReconnecting = FALSE
  /\ timeSinceLastChange = VISIBILITY_DEBOUNCE
  /\ live = {}
  /\ timers = 0
  /\ intervals = {}
  /\ intervalSeq = 0
  /\ listeners = [visibilitychange |-> 0, online |-> 0, offline |-> 0, auth |-> 0,
                  beforeunload |-> 0]
  /\ cycles = [c \in Slots |-> Idle]
  /\ probes = 0
  /\ sinceFlip = VISIBILITY_DEBOUNCE
  /\ armedDelay = 0
  /\ last = "load"
  /\ bus = [hooks |-> [h \in HookIds |-> Unmounted], registered |-> <<>>, effectSeq |-> 0,
            published |-> NoEvent, delivered |-> <<>>, removed |-> {},
            hidden |-> FALSE, visPc |-> "unmounted", isVisible |-> FALSE]

\* the events the manager reacts to while the page is shown
Events ==
  \/ InitCall
  \/ \E status \in Statuses, random \in RandomDraws : StatusEvent(status, random)
  \/ TimerFires
  \/ \E c \in Slots, ok \in BOOLEAN : RemoveChannelReturns(c, ok)
  \/ \E c \in Slots, result \in {"valid", "none", "error", "throws"} : GetSessionReturns(c, result)
  \/ KeepaliveFires
  \/ \E result \in {"ok", "error", "throws"}, random \in RandomDraws : ProbeReturns(result, random)
  \/ \E docHidden \in BOOLEAN : VisibilityChange(docHidden)
  \/ \E event \in AuthEvents : AuthStateChange(event)
  \/ Online
  \/ Offline

Next == Events \/ Tick

Spec == Init /\ [][Next]_vars

\* ---- the same events, and the page-unload teardown on a page that goes on
\* after it
UnloadNext == Next \/ BeforeUnload

UnloadSpec == Init /\ [][UnloadNext]_vars

\* ---- the environment events of the initialized manager on a clock that
\* also advances by FineTickMs
FineNext ==
  \/ InitCall
  \/ \E docHidden \in BOOLEAN : VisibilityChange(docHidden)
  \/ Online
  \/ Offline
  \/ \E c \in Slots, ok \in BOOLEAN : RemoveChannelReturns(c, ok)
  \/ Tick
  \/ FineTick

FineSpec == Init /\ [][FineNext]_vars

\* ---- the reconnect path of the initialized manager and the teardowns the
\* online and auth events start, with failure statuses that come in a burst
\* and with the CLOSED status of released handles
BurstNext ==
  \/ InitCall
  \/ \E status \in Statuses, random \in RandomDraws : StatusEvent(status, random)
  \/ \E status \in FailureStatuses, random \in RandomDraws : FailureBurst(status, random)
  \/ TimerFires
  \/ \E c \in Slots, ok \in BOOLEAN : RemoveChannelReturns(c, ok)
  \/ \E c \in Slots, result \in {"valid", "none", "error", "throws"} : GetSessionReturns(c, result)
  \/ \E event \in AuthEvents : AuthStateChange(event)
  \/ Online
  \/ \E c \in Slots, random \in RandomDraws : ClosedAfterRelease(c, random)

BurstSpec == Init /\ [][BurstNext]_vars

\* ---- the components that use the two hooks, on the initialized manager
BusNext ==
  \/ InitCall
  \/ \E h \in HookIds, table \in HookTables, enabled \in BOOLEAN, throws \in BOOLEAN :
       EffectRuns(h, table, enabled, throws)
  \/ \E h \in HookIds : Unmount(h)
  \/ \E n \in 1..Len(TopicOrder), detail \in Payloads : ChangeArrives(n, detail)
  \/ VisibilityHookRenders
  \/ VisibilityHookEffect
  \/ VisibilityHookUnmounts
  \/ VisibilitySignal

BusSpec == Init /\ [][BusNext]_vars

\* ---- the awaited promises settle -----------------------------------------
\* removeChannel and getSession are network calls with a timeout of their
\* own: each suspended activation is resumed eventually
LiveSpec ==
  /\ Spec
  /\ \A c \in Slots : WF_vars(\E ok \in BOOLEAN : RemoveChannelReturns(c, ok))
  /\ \A c \in Slots :
       WF_vars(\E result \in {"valid", "none", "error", "throws"} : GetSessionReturns(c, result))

\* ---- timers fire and the awaited promises settle -------------------------
\* in addition, a pending setTimeout callback runs, the keepalive interval
\* keeps firing and its query returns
RecoverySpec ==
  /\ LiveSpec
  /\ WF_vars(TimerFires)
  /\ WF_vars(KeepaliveFires)
  /\ WF_vars(\E result \in {"ok", "error", "throws"}, random \in RandomDraws :
               ProbeReturns(result, random))

\* ---- properties ------------------------------------------------------------
\* handler activations in flight that tear the subscriptions down and open
\* them again
Resubscribing == {c \in Busy : cycles[c].kind \in {"timer", "visible", "reopen"}}

\* a step that calls scheduleReconnect()
ScheduleReconnectCall ==
  \/ \E status \in FailureStatuses, random \in RandomDraws : StatusEvent(status, random)
  \/ \E random \in RandomDraws : ProbeReturns("error", random)

\* C1: whatever triggered it (backoff timer, return to the foreground, the
\* online event, SIGNED_IN or TOKEN_REFRESHED), at most one resubscribe
\* cycle is in progress in every reachable state.
C1_OneCycleAtATime == Cardinality(Resubscribing) <= 1

\* C2: no handle leaks: every handle opened and not yet released is in
\* channelRefs, and no topic has more than one unreleased handle.
C2_NoHandleLeak ==
  /\ live \subseteq Range(channelRefs)
  /\ \A n \in 1..Len(TopicOrder) :
       Cardinality({h \in live : h.topic = TopicOrder[n]}) <= 1

\* C3: the retry counter stays between 0 and MAX_RECONNECT_ATTEMPTS in every
\* reachable state.
C3_CounterBounded ==
  reconnectAttempts \in 0..MAX_RECONNECT_ATTEMPTS

C3_AtMaximum ==
  reconnectAttempts = MAX_RECONNECT_ATTEMPTS /\ timers > 0

\* C4: with the counter at its maximum, a further failure (a CLOSED or
\* CHANNEL_ERROR status, a failing keepalive probe) arms no timer and leaves
\* the counter at the maximum.
C4_NoArmingAtMaximum ==
  [][(reconnectAttempts = MAX_RECONNECT_ATTEMPTS
      /\ (ScheduleReconnectCall \/ \E random \in RandomDraws : ProbeReturns("throws", random)))
     => (timers' = timers /\ reconnectAttempts' = MAX_RECONNECT_ATTEMPTS)]_vars

C4_FailureAtMaximum ==
  last = "failure:max" /\ reconnectAttempts = MAX_RECONNECT_ATTEMPTS /\ armedDelay = 0

C6_EachFailureStatusArms ==
  [][\A status \in {"CLOSED", "CHANNEL_ERROR", "TIMED_OUT"} :
       ((\E random \in RandomDraws : StatusEvent(status, random)) /\ WouldArm)
         => (reconnectAttempts' = reconnectAttempts + 1 /\ timers' = timers + 1)]_vars

\* C7: a SUBSCRIBED status sets the counter to 0 and changes neither the
\* handles, nor the guard, nor the timers.
C7_SubscribedResets ==
  [][(\E random \in RandomDraws : StatusEvent("SUBSCRIBED", random))
     => /\ reconnectAttempts' = 0
        /\ UNCHANGED <<channelRefs, live, isReconnecting, timers, cycles,
                       keepAliveInterval, intervals, probes>>]_vars

C7_CounterWasReset ==
  last = "SUBSCRIBED:reset" /\ reconnectAttempts = 0

\* C8: a call of scheduleReconnect while the guard is set is dropped: the
\* counter and the timers stay as they are, and the step that clears the
\* guard replays nothing, it arms no timer and leaves the counter.
C8_DroppedWhileInFlight ==
  [][/\ (isReconnecting /\ ScheduleReconnectCall) => UNCHANGED <<reconnectAttempts, timers>>
     /\ (isReconnecting /\ ~isReconnecting') => UNCHANGED <<reconnectAttempts, timers>>]_vars

C8_FailureInFlight ==
  last = "failure:inflight" /\ isReconnecting /\ cycles[0] # Idle

\* C9: the delay armed before attempt k lies between BASE_DELAY * 2^(k-1)
\* and 1.3 times that while it is at most MAX_DELAY, and between MAX_DELAY
\* and 1.3 * MAX_DELAY beyond; k - 1 is the counter before its increment.
C9_DelayBounds ==
  armedDelay > 0 =>
    LET k == reconnectAttempts
        nominal == BASE_DELAY * Pow2(k - 1)
    IN  /\ k \in 1..MAX_RECONNECT_ATTEMPTS
        /\ IF nominal <= MAX_DELAY
           THEN nominal <= armedDelay /\ 10 * armedDelay <= 13 * nominal
           ELSE MAX_DELAY <= armedDelay /\ 10 * armedDelay <= 13 * MAX_DELAY

C9_CappedDelayArmed ==
  armedDelay > MAX_DELAY /\ reconnectAttempts = MAX_RECONNECT_ATTEMPTS

\* C10: the guard is released in the end, also when a removeChannel is
\* rejected or the session check fails or throws, and only by the last step
\* of the activation that took it: the reopening after the teardown, or the
\* throw that ends it.
C10_GuardReleased ==
  /\ isReconnecting ~> ~isReconnecting
  /\ [][(isReconnecting /\ ~isReconnecting')
        => /\ cycles[0] # Idle /\ cycles'[0] = Idle
           /\ \/ cycles[0].pc = "getSession"
              \/ cycles[0].kind = "visible" /\ cycles[0].i = Len(cycles[0].arr)
           /\ \/ Len(channelRefs') = Len(TopicOrder)
              \/ last' = "getSession:throws"]_vars

C10_ReleasedAfterThrow ==
  last = "getSession:throws" /\ ~isReconnecting /\ cycles[0] = Idle

\* C11: every visibility flip that comes less than VISIBILITY_DEBOUNCE after
\* the previous flip is ignored, also when that previous flip was ignored:
\* the counter is not reset and nothing is torn down or reopened.
C11_FlipAfterFlipIgnored ==
  [][((\E docHidden \in BOOLEAN : VisibilityChange(docHidden)) /\ sinceFlip < VISIBILITY_DEBOUNCE)
     => UNCHANGED <<reconnectAttempts, channelRefs, live, cycles, isReconnecting>>]_vars

\* C12: of two foreground visibility events less than VISIBILITY_DEBOUNCE
\* apart, the first one passing the debounce with no reconnect in flight,
\* the second changes nothing: after both there is the one resubscribe cycle
\* the first started, at its first handle, or, with no handle to release,
\* already completed with the full set reopened.
C12_OneCycleForTwoEvents ==
  /\ [][(VisibilityChange(FALSE) /\ timeSinceLastChange < VISIBILITY_DEBOUNCE)
        => UNCHANGED progVars]_vars
  /\ [](last = "visible:twice" =>
          /\ timeSinceLastChange = 0
          /\ \/ /\ cycles[0].kind = "visible" /\ cycles[0].i = 1
                /\ cycles[0].arr = channelRefs
                /\ isReconnecting
             \/ /\ cycles[0] = Idle
                /\ Len(channelRefs) = Len(TopicOrder)
                /\ ~isReconnecting)

C12_SecondEventIgnored ==
  last = "visible:twice" /\ cycles[0].kind = "visible" /\ cycles[0].arr = channelRefs

\* C13: a foreground visibility event that passes the debounce with no
\* reconnect in flight sets the counter to 0, whatever it was, arms no timer
\* and starts the teardown in the same step; the cycle it starts ends with
\* the handles it found released and the full set reopened.
C13_ForegroundResubscribes ==
  /\ [][(VisibilityChange(FALSE) /\ timeSinceLastChange >= VISIBILITY_DEBOUNCE /\ ~isReconnecting)
        => /\ reconnectAttempts' = 0
           /\ timers' = timers
           /\ IF channelRefs = <<>>
              THEN Len(channelRefs') = Len(TopicOrder) /\ cycles'[0] = Idle /\ ~isReconnecting'
              ELSE /\ cycles'[0] = [kind |-> "visible", pc |-> "removing",
                                    arr |-> channelRefs, i |-> 1]
                   /\ isReconnecting']_vars
  /\ [][(cycles[0].kind = "visible" /\ cycles'[0] = Idle)
        => /\ Len(channelRefs') = Len(TopicOrder)
           /\ Range(channelRefs') \subseteq live'
           /\ Range(cycles[0].arr) \cap live' = {}]_vars

C13_ResetFromMaximum ==
  last = "visible:atmax" /\ reconnectAttempts = 0 /\ cycles[0].kind = "visible"

\* C14: a visibility event with the document hidden leaves the tracked
\* handles, the counter, the guard, the keepalive timer and the pending
\* backoff timers as they are.
C14_BackgroundChangesNothing ==
  [][VisibilityChange(TRUE)
     => UNCHANGED <<channelRefs, live, reconnectAttempts, isReconnecting,
                    keepAliveInterval, intervals, timers, cycles>>]_vars

C14_HiddenWithTimerPending ==
  /\ last = "hidden:timer-pending" /\ timeSinceLastChange = 0
  /\ timers > 0 /\ reconnectAttempts > 0 /\ channelRefs # <<>>

\* the step starts, in a slot that takes no guard, a teardown of the tracked
\* handles for a handler of the given kind
StartsTeardown(kind) ==
  \E c \in Slots \ {0} :
    /\ cycles[c] = Idle
    /\ cycles'[c] = [kind |-> kind, pc |-> "removing", arr |-> channelRefs, i |-> 1]

\* the step ends the activation in slot c with the handles it found released
\* and the full set reopened
EndsReopened(c) ==
  /\ Len(channelRefs') = Len(TopicOrder)
  /\ Range(channelRefs') \subseteq live'
  /\ Range(cycles[c].arr) \cap live' = {}

\* C15: an online event starts the teardown of the tracked handles in the
\* same step, whatever the counter, arms no timer and leaves the counter;
\* the activation ends with the full set reopened.  An offline event
\* changes nothing.
C15_OnlineReopensOfflineIdles ==
  [][/\ Online => /\ UNCHANGED <<reconnectAttempts, timers>>
                  /\ IF channelRefs = <<>>
                     THEN Len(channelRefs') = Len(TopicOrder) /\ UNCHANGED cycles
                     ELSE StartsTeardown("reopen")
     /\ Offline => UNCHANGED progVars
     /\ \A c \in Slots \ {0} :
          (cycles[c].kind = "reopen" /\ cycles'[c] = Idle)
            => (EndsReopened(c) /\ UNCHANGED <<reconnectAttempts, timers>>)]_vars

C15_OnlineAtMaximum ==
  /\ last = "online:atmax" /\ reconnectAttempts = MAX_RECONNECT_ATTEMPTS
  /\ \E c \in Slots \ {0} : cycles[c].kind = "reopen" /\ cycles[c].arr = channelRefs

\* C16: a keepalive probe that returns an error and one that throws both
\* call scheduleReconnect: with no reconnect in flight and the counter below
\* the maximum, the counter goes up by one and a timer is armed.
C16_ProbeFailureArms ==
  [][\A result \in {"error", "throws"} :
       ((\E random \in RandomDraws : ProbeReturns(result, random)) /\ WouldArm)
         => (reconnectAttempts' = reconnectAttempts + 1 /\ timers' = timers + 1)]_vars

\* C17: with the manager initialised and a session present, as in the state
\* a SIGNED_IN or TOKEN_REFRESHED event leads to, keepAliveInterval is set
\* and names a running timer.
C17_KeepaliveArmedWithSession ==
  [][(\E event \in {"SIGNED_IN", "TOKEN_REFRESHED"} : AuthStateChange(event))
     => (isInitialized' /\ keepAliveInterval' # 0 /\ keepAliveInterval' \in intervals')]_vars

\* C18: a SIGNED_IN or TOKEN_REFRESHED event starts the teardown of the
\* tracked handles and its handler ends with the full set reopened; a
\* SIGNED_OUT event starts the teardown and its handler ends with no tracked
\* handle, keepAliveInterval null and no keepalive timer running.
C18_CredentialRotation ==
  [][/\ (\E event \in {"SIGNED_IN", "TOKEN_REFRESHED"} : AuthStateChange(event))
          => IF channelRefs = <<>>
             THEN Len(channelRefs') = Len(TopicOrder) /\ UNCHANGED cycles
             ELSE StartsTeardown("reopen")
     /\ AuthStateChange("SIGNED_OUT")
          => IF channelRefs = <<>>
             THEN channelRefs' = <<>> /\ keepAliveInterval' = 0 /\ intervals' = {}
             ELSE StartsTeardown("signout")
     /\ \A c \in Slots \ {0} :
          /\ (cycles[c].kind = "reopen" /\ cycles'[c] = Idle) => EndsReopened(c)
          /\ (cycles[c].kind = "signout" /\ cycles'[c] = Idle)
               => /\ channelRefs' = <<>>
                  /\ Range(cycles[c].arr) \cap live' = {}
                  /\ keepAliveInterval' = 0
                  /\ intervals' = {}]_vars

C18_SignedOut ==
  /\ isInitialized /\ keepAliveInterval = 0 /\ intervals = {}
  /\ channelRefs = <<>> /\ live = {} /\ Busy = {}

\* C19: the page-unload teardown starts the release of every tracked
\* handle, cancels the keepalive timer and removes the listeners that
\* initialisation registered.
C19_ShutdownRemovesListeners ==
  [][BeforeUnload
     => /\ channelRefs # <<>> => StartsTeardown("unload")
        /\ intervals' = {}
        /\ \A e \in DOMAIN listeners : listeners'[e] = 0]_vars

\* C20: once the page-unload teardown has run (keepAliveInterval names a
\* timer that was cleared) no timer fires: no backoff timer runs its
\* teardown and reopen, and no keepalive probe is sent.
C20_NoTimerAfterShutdown ==
  [][(keepAliveInterval # 0 /\ keepAliveInterval \notin intervals)
     => (~(TimerFires /\ ~isReconnecting) /\ ~KeepaliveFires)]_vars

\* the counter is at its maximum and no backoff timer is pending
Degraded == reconnectAttempts = MAX_RECONNECT_ATTEMPTS /\ timers = 0

\* the step starts a resubscribe cycle: an activation that tears down and
\* reopens is suspended, or, with no handle to release, the full set is
\* reopened at once
CycleStarts ==
  \/ \E c \in Slots : cycles[c] = Idle /\ cycles'[c].kind \in {"timer", "visible", "reopen"}
  \/ UNCHANGED cycles /\ channelRefs' # channelRefs /\ channelRefs' # <<>>

\* the step is one of the external events that start a resubscribe cycle
ExternalTrigger ==
  \/ VisibilityChange(FALSE)
  \/ Online
  \/ \E event \in {"SIGNED_IN", "TOKEN_REFRESHED"} : AuthStateChange(event)

C22_TriggersResetCounter ==
  [][(reconnectAttempts = MAX_RECONNECT_ATTEMPTS /\ ~isReconnecting
        /\ \/ VisibilityChange(FALSE) /\ ~Debounced
           \/ AuthStateChange("SIGNED_IN"))
     => (reconnectAttempts' = 0 /\ CycleStarts)]_vars

\* the tracked set holds one handle per topic, in the order they are opened
FullSet(refs) ==
  Len(refs) = Len(TopicOrder) /\ \A n \in 1..Len(refs) : refs[n].topic = TopicOrder[n]

\* C23: from the initialized state with the four topics open, the counter at
\* 0 and nothing in flight, one CHANNEL_ERROR arms exactly one timer and
\* sets the counter to 1; when that timer fires, the four handles are
\* released and, the session check having returned, four new handles are
\* opened, one per topic.
C23_OneErrorOneCycle ==
  [][/\ (QuietAtZero /\ isInitialized /\ FullSet(channelRefs)
           /\ \E random \in RandomDraws : StatusEvent("CHANNEL_ERROR", random))
         => (reconnectAttempts' = 1 /\ timers' = 1 /\ armedDelay' > 0
             /\ UNCHANGED <<channelRefs, live, cycles>>)
     /\ (TimerFires /\ ~isReconnecting /\ FullSet(channelRefs))
         => (timers' = timers - 1 /\ isReconnecting'
             /\ cycles'[0] = [kind |-> "timer", pc |-> "removing", arr |-> channelRefs, i |-> 1])
     /\ (cycles[0].kind = "timer" /\ cycles[0].pc = "removing" /\ cycles'[0].pc = "getSession")
         => (Range(cycles[0].arr) \cap live' = {} /\ channelRefs' = <<>>)
     /\ \A result \in {"valid", "none", "error"} :
          GetSessionReturns(0, result)
            => /\ FullSet(channelRefs')
               /\ Range(channelRefs') \cap live = {}
               /\ live' = live \cup Range(channelRefs')
               /\ cycles'[0] = Idle]_vars

C23_ReopenedAfterOneError ==
  /\ last = "getSession:valid"
  /\ reconnectAttempts = 1 /\ timers = 0 /\ Busy = {}
  /\ FullSet(channelRefs) /\ live = Range(channelRefs)

\* C24: a change published on a topic invokes every listener registered for
\* it at that moment, within the same step, once each, in registration
\* order and with the payload of the change; a listener that throws does
\* not stop the delivery to the listeners registered after it.
C24_PublishReachesAll ==
  [][\A n \in 1..Len(TopicOrder), detail \in Payloads :
       ChangeArrives(n, detail) =>
         LET on == {k \in 1..Len(registered) : registered[k].type = EventName(TopicOrder[n])}
         IN  /\ Len(delivered') = Cardinality(on)
             /\ \A k \in on : \E j \in 1..Len(delivered') :
                   delivered'[j].ref = registered[k].ref /\ delivered'[j].detail = detail
             /\ \A k1, k2 \in on : k1 < k2 =>
                   \E j1, j2 \in 1..Len(delivered') :
                     /\ j1 < j2
                     /\ delivered'[j1].ref = registered[k1].ref
                     /\ delivered'[j2].ref = registered[k2].ref
             /\ registered' = registered]_vars

C24_DeliveredAfterThrow ==
  /\ Len(delivered) = 2
  /\ delivered[1].threw
  /\ delivered[1].detail = published.detail /\ delivered[2].detail = published.detail

\* C25: the cleanup of a hook removes exactly the listener it added: the
\* other listeners stay, in their order; running the removal again changes
\* nothing; a listener that has been removed is in no later delivery.
C25_UnregisterExact ==
  /\ [](\A r \in removed :
          /\ removeEventListener(registered, r.type, r.ref) = registered
          /\ \A k \in 1..Len(registered) : registered[k].ref # r.ref
          /\ \A j \in 1..Len(delivered) : delivered[j].ref # r.ref)
  /\ [][\A h \in HookIds :
          (Unmount(h) /\ hooks[h].ref # 0) =>
            LET others == {k \in 1..Len(registered) : registered[k].ref # hooks[h].ref}
            IN  /\ Len(registered') = Len(registered) - 1
                /\ Cardinality(others) = Len(registered')
                /\ \A k \in others : \E j \in 1..Len(registered') : registered'[j] = registered[k]
                /\ \A k1, k2 \in others : k1 < k2 =>
                      \E j1, j2 \in 1..Len(registered') :
                        j1 < j2 /\ registered'[j1] = registered[k1] /\ registered'[j2] = registered[k2]
                /\ removeEventListener(registered', EventName(hooks[h].table), hooks[h].ref)
                     = registered']_vars

C25_PublishedAfterUnregister ==
  /\ published # NoEvent
  /\ Len(delivered) = 1
  /\ \E r \in removed : r.type = published.type

\* C26: a change of the table a channel watches is delivered to every hook
\* that is registered (mounted and enabled) with that table's name.
C26_TableNameIsTopic ==
  [][\A n \in 1..Len(TopicOrder), detail \in Payloads :
       ChangeArrives(n, detail) =>
         \A h \in HookIds :
           (hooks[h].mounted /\ hooks[h].enabled /\ hooks[h].table = Tables[n])
             => \E j \in 1..Len(delivered') : delivered'[j].hook = h]_vars

\* C28: the boolean of usePageVisibility changes only by a visibility signal
\* of the document, and after every such signal it is the negation of
\* document.hidden.
C28_VisibleTracksDocument ==
  [][/\ (visPc # "unmounted" /\ visPc' # "unmounted" /\ isVisible' # isVisible)
         => VisibilitySignal
     /\ (VisibilitySignal /\ visPc # "unmounted") => isVisible' = ~hidden']_vars

\* C27: with timers firing and awaited calls returning, whenever a
\* subscription reports CLOSED, CHANNEL_ERROR or TIMED_OUT while the counter
\* is below the maximum, a teardown and reopen of the subscriptions
\* eventually follows.  This is the case of TIMED_OUT reported to the
\* initialized manager with the counter at 0, nothing in flight and the
\* keepalive running: a teardown of the tracked set either is a resubscribe
\* cycle in progress or leaves the set empty.
C27_FailureLeadsToReopen ==
  (last = "TIMED_OUT:idle" /\ intervals # {})
    ~> (Resubscribing # {} \/ channelRefs = <<>>)

\* C29: a removeChannel that is rejected does not stop the teardown: the
\* handle counts as released, the loop goes on with the next handle, and
\* after the last one the teardown completes, the handles it released are
\* no longer tracked and its handler continues; with no handle to release
\* the teardown completes at once.
C29_TeardownToleratesFaults ==
  [][/\ \A c \in Slots :
          RemoveChannelReturns(c, FALSE) =>
            /\ cycles[c].arr[cycles[c].i] \notin live'
            /\ IF cycles[c].i < Len(cycles[c].arr)
               THEN cycles'[c] = [cycles[c] EXCEPT !.i = @ + 1]
               ELSE /\ cycles'[c].pc # "removing"
                    /\ IF cycles[c].kind \in {"visible", "reopen"}
                       THEN FullSet(channelRefs')
                              /\ Range(channelRefs') \cap Range(cycles[c].arr) = {}
                       ELSE channelRefs' = <<>>
     /\ (TimerFires /\ ~isReconnecting /\ channelRefs = <<>>)
          => (cycles'[0].pc = "getSession" /\ channelRefs' = <<>>)
     /\ (Online /\ channelRefs = <<>>)
          => (UNCHANGED cycles /\ FullSet(channelRefs'))]_vars

C29_CompletedAfterRejection ==
  /\ last = "removeChannel:rejected:last"
  /\ cycles[0].pc = "getSession"
  /\ channelRefs = <<>> /\ live = {}

\* C30: when the backoff timer fires with no reconnect in flight, first the
\* guard is set, then every handle of the tracked set is released, then the
\* session is checked, then the full set is reopened; the guard stays set
\* until then, and the reopen happens whether the check returns a session,
\* no session or an error.
C30_TimerCycleOrder ==
  /\ [](cycles[0].kind = "timer" => isReconnecting)
  /\ [][/\ (TimerFires /\ ~isReconnecting)
            => /\ isReconnecting' /\ cycles'[0].kind = "timer"
               /\ IF channelRefs = <<>>
                  THEN cycles'[0].pc = "getSession"
                  ELSE cycles'[0].pc = "removing" /\ cycles'[0].arr = channelRefs
                         /\ cycles'[0].i = 1
               /\ UNCHANGED <<channelRefs, live>>
        /\ (cycles[0].kind = "timer" /\ cycles[0].pc = "removing" /\ cycles'[0] # cycles[0])
            => /\ live' = live \ {cycles[0].arr[cycles[0].i]}
               /\ IF cycles[0].i < Len(cycles[0].arr)
                  THEN cycles'[0].pc = "removing" /\ UNCHANGED channelRefs
                  ELSE cycles'[0].pc = "getSession" /\ channelRefs' = <<>>
                         /\ Range(cycles[0].arr) \cap live' = {}
        /\ \A result \in {"valid", "none", "error"} :
             GetSessionReturns(0, result)
               => /\ cycles[0].kind = "timer"
                  /\ FullSet(channelRefs') /\ Range(channelRefs') \subseteq live'
                  /\ Range(channelRefs') \cap live = {}
                  /\ ~isReconnecting']_vars

C30_ReopenedAfterSessionError ==
  /\ last = "getSession:error"
  /\ ~isReconnecting /\ Busy = {}
  /\ FullSet(channelRefs) /\ live = Range(channelRefs)

\* C31: a call of scheduleReconnect() that passes both guards adds one to
\* the counter and arms one timer; no timer is armed without the counter
\* going up by one, and the counter changes only by such a call or by a
\* reset to 0, so that it counts the timers armed since its last reset.
C31_CounterCountsArmedTimers ==
  [][/\ (ScheduleReconnectCall /\ WouldArm)
         => (reconnectAttempts' = reconnectAttempts + 1 /\ timers' = timers + 1
             /\ armedDelay' > 0)
     /\ (timers' > timers)
         => (timers' = timers + 1 /\ reconnectAttempts' = reconnectAttempts + 1)
     /\ (reconnectAttempts' # reconnectAttempts)
         => \/ reconnectAttempts' = 0
            \/ reconnectAttempts' = reconnectAttempts + 1 /\ timers' = timers + 1]_vars

C31_ThirdTimerArmed ==
  armedDelay > 0 /\ reconnectAttempts = 3 /\ timers = 1

\* C32: at most one backoff timer is pending in every reachable state:
\* failure statuses that arrive before a timer has fired arm no second
\* timer.
C32_OnePendingTimer == timers <= 1

\* C33: the CLOSED status of a handle that an online- or auth-triggered
\* teardown has released changes neither the counter nor the pending
\* timers.
C33_ReleasedHandleIgnored ==
  [][\A c \in Slots :
       (cycles[c].kind \in {"reopen", "signout"}
          /\ \E random \in RandomDraws : ClosedAfterRelease(c, random))
       => UNCHANGED <<reconnectAttempts, timers>>]_vars

\* C34: once SIGNED_OUT has been handled, no subscription is opened before
\* a SIGNED_IN or TOKEN_REFRESHED event.  This is the case of a backoff
\* timer armed before the sign-out: it fires right after the sign-out has
\* been handled and its session check finds no session.
C34_NoReopenWhileSignedOut ==
  [][(last = "timer:signedout" /\ GetSessionReturns(0, "none"))
     => channelRefs' = <<>>]_vars

\* C35: a timer-fired reconnect ends, whatever the session check does, with
\* the full set reopened or with a retry pending: it never leaves the
\* manager with no tracked handle, no pending timer and the counter below
\* the maximum.
C35_ReconnectNeverStrands ==
  [][\A result \in {"valid", "none", "error", "throws"} :
       GetSessionReturns(0, result)
         => \/ FullSet(channelRefs')
            \/ timers' > 0
            \/ reconnectAttempts' >= MAX_RECONNECT_ATTEMPTS]_vars

\* C36: a backoff timer that fires while the in-flight guard is set does
\* nothing: no handle is released, no subscription opened, the counter and
\* the guard keep their values and no timer is armed in its place.
C36_SkippedTimerChangesNothing ==
  [][(TimerFires /\ isReconnecting)
     => /\ UNCHANGED <<channelRefs, live, reconnectAttempts, isReconnecting, cycles,
                       keepAliveInterval, intervals, probes, isInitialized>>
        /\ timers' = timers - 1
        /\ armedDelay' = 0]_vars

C36_TimerSkipped ==
  last = "timer:skipped" /\ isReconnecting /\ timers = 0 /\ cycles[0] # Idle

\* C37: a foreground event that passes the debounce while a reconnect is in
\* flight only restarts the debounce window: the counter, the guard, the
\* subscriptions and the pending timers keep their values; a foreground
\* event inside the debounce window of an accepted event changes nothing at
\* all.
C37_ForegroundInFlightChangesNothing ==
  [][/\ (VisibilityChange(FALSE) /\ ~Debounced /\ isReconnecting)
         => /\ UNCHANGED <<reconnectAttempts, isReconnecting, channelRefs, live, cycles,
                           timers, keepAliveInterval, intervals, probes>>
            /\ timeSinceLastChange' = 0
     /\ (VisibilityChange(FALSE) /\ Debounced) => UNCHANGED progVars]_vars

C37_ForegroundWhileInFlight ==
  /\ last = "visible:inflight"
  /\ isReconnecting /\ reconnectAttempts > 0 /\ timeSinceLastChange = 0
  /\ cycles[0].kind = "timer"

\* C38: a keepalive query that succeeds changes nothing in the manager: the
\* tracked handles, the counter (it is not reset), the guard and the
\* pending timers keep their values.
C38_ProbeSuccessChangesNothing ==
  [][\A random \in RandomDraws :
       ProbeReturns("ok", random)
         => /\ UNCHANGED <<channelRefs, live, reconnectAttempts, isReconnecting, timers,
                           cycles, keepAliveInterval, intervals, isInitialized>>
            /\ armedDelay' = 0]_vars

C38_ProbeSucceededAfterFailure ==
  last = "probe:ok" /\ reconnectAttempts = 1 /\ timers = 1 /\ probes = 0

====
